---- MODULE Spec2Model ----
(***************************************************************************)
(* The React client of the incident response system                        *)
(* (frontend/care-doc-qa-frontend/src/App.js): the component state of each *)
(* open page (a "session"), the requests it has in flight, and the         *)
(* localStorage item 'totalCost' that all pages of the origin share.       *)
(*                                                                         *)
(* A nullable JavaScript value is modelled as a sequence of length at most *)
(* one: None is null, Some(v) is the value v.  A string the code trims is  *)
(* a sequence of characters.  Costs are whole numbers of the smallest cost *)
(* unit the server reports.                                                *)
(***************************************************************************)
EXTENDS Integers, Sequences, FiniteSets, TLC

\* ---------------------------------------------------------------- bounds
MaxMessages == 4
MaxCost == 1
MaxTotalCost == 2
MaxTime == 1

\* two pages of the application open in the same browser
Sessions == {"page1", "page2"}

None == <<>>
Some(v) == <<v>>

\* ---------------------------------------------------------------- inputs
\* what the user can type in the two text areas
Texts == { <<>>, <<" ">>, <<"a">>, <<"b">> }

\* values of Date.now()
Times == 1..MaxTime

\* data.cost of a response; 0 also stands for a response without a cost
Costs == 0..MaxCost

\* well-formed data.analysis / data.analysis_data objects of the server
AnalysisData == { [analysis |-> [summary |-> sm]] : sm \in {"fall", "medication"} }

\* the documents of one incident
DocumentTypes == { "incident_report", "email_supervisor", "email_family" }

\* the processes the start scripts launch
Services == { "incident-processor", "document-service", "ai-service",
              "api-gateway", "frontend" }

\* String.prototype.trim
RECURSIVE TrimStart(_)
TrimStart(str) ==
  IF str # <<>> /\ Head(str) = " " THEN TrimStart(Tail(str)) ELSE str

RECURSIVE TrimEnd(_)
TrimEnd(str) ==
  IF str # <<>> /\ str[Len(str)] = " "
    THEN TrimEnd(SubSeq(str, 1, Len(str) - 1))
    ELSE str

Trim(str) == TrimEnd(TrimStart(str))

\* ------------------------------------------------- number <-> string
DigitChar(d) ==
  CASE d = 0 -> "0" [] d = 1 -> "1" [] d = 2 -> "2" [] d = 3 -> "3"
    [] d = 4 -> "4" [] d = 5 -> "5" [] d = 6 -> "6" [] d = 7 -> "7"
    [] d = 8 -> "8" [] d = 9 -> "9"

DigitValue(c) ==
  CASE c = "0" -> 0 [] c = "1" -> 1 [] c = "2" -> 2 [] c = "3" -> 3
    [] c = "4" -> 4 [] c = "5" -> 5 [] c = "6" -> 6 [] c = "7" -> 7
    [] c = "8" -> 8 [] c = "9" -> 9

\* Number.prototype.toString of a non-negative whole number
RECURSIVE NumberToString(_)
NumberToString(n) ==
  IF n < 10 THEN <<DigitChar(n)>>
            ELSE Append(NumberToString(n \div 10), DigitChar(n % 10))

\* parseFloat of a string of decimal digits
RECURSIVE ParseDigits(_, _)
ParseDigits(str, acc) ==
  IF str = <<>> THEN acc
                ELSE ParseDigits(Tail(str), 10 * acc + DigitValue(Head(str)))

ParseFloat(str) == ParseDigits(str, 0)

\* ---------------------------------------------------------------- state
VARIABLES
  message,         \* [session] current chat input
  messages,        \* [session] chat history
  transcript,      \* [session] transcript input area
  isLoading,       \* [session] loading flag
  systemHealth,    \* [session] None, or Some(status)
  totalCost,       \* [session] in-memory cost total
  sessionContext,  \* [session] context for follow-up questions
  inflight,        \* [session] requests awaiting their response, oldest first
  healthPending,   \* [session] the GET /health of the mount has not answered
  storedCost,      \* localStorage item 'totalCost': None, or Some(string)
  billed,          \* history: sum of data.cost over the calls that succeeded
  \* one analyze call followed through the engine behind POST /analyze and
  \* back into the page
  enginePc,        \* "idle", "calling", "returned" or "shown"
  engineTranscript,\* the transcript of the call
  attempts,        \* invocations of the analysis capability in this call
  schemaRetries,   \* retries after an output that did not fit the schema
  transportRetries,\* retries after a transport or timeout failure
  lastOutput,      \* the last output of the capability
  engineResult,    \* what the engine returns for the call
  engineContext,   \* the session context of the page that made the call
  engineMessages,  \* the chat messages the call added in the page
  engineFormatted, \* None, or Some(what formatAnalysisResponse built)
  \* the artifacts of an incident and the last document update
  artifacts,       \* [document type] current content
  updateResult,    \* None, or Some(result of the last updateDocument)
  \* one run of a start script (start_assessment.sh or start_careDocQA.sh)
  script,          \* "none", or the script that runs
  pc,              \* where the script is
  idx,             \* the place in LaunchOrder of the service being handled
  proc,            \* [service] "none", "running" or "dead": its process
  healthy,         \* [service] it answers its health URL
  attempt,         \* the variable attempt of the wait loop
  polls,           \* history: health polls made by the current wait loop
  answered,        \* history: services that answered a poll of a wait loop
  trapSet,         \* the script has installed its trap
  stillStarting,   \* the readiness check found the frontend not answering
  reported         \* services the monitor loop has reported as down

pageVars == << message, messages, transcript, isLoading, systemHealth, totalCost,
               sessionContext, inflight, healthPending, storedCost, billed >>

engineVars == << enginePc, engineTranscript, attempts, schemaRetries,
                 transportRetries, lastOutput, engineResult, engineContext,
                 engineMessages, engineFormatted >>

updateVars == << artifacts, updateResult >>

startVars == << script, pc, idx, proc, healthy, attempt, polls, answered,
               trapSet, stillStarting, reported >>

vars == << pageVars, engineVars, updateVars, startVars >>

\* useState initial value of sessionContext
InitialSessionContext ==
  [ hasActiveIncident |-> FALSE,
    lastAnalysis |-> None,
    incidentSummary |-> "",
    lastTranscriptTime |-> None,
    originalTranscript |-> None ]

\* addMessage builds { type, content, metadata }; the model keeps the type,
\* which text the content is, and metadata.analysisData
NewMessage(type, content, analysisData) ==
  [ type |-> type, content |-> content, analysisData |-> analysisData ]

WelcomeMessage == NewMessage("system", "Welcome", None)

Init ==
  /\ message = [s \in Sessions |-> <<>>]
  /\ messages = [s \in Sessions |-> <<WelcomeMessage>>]
  /\ transcript = [s \in Sessions |-> <<>>]
  /\ isLoading = [s \in Sessions |-> FALSE]
  /\ systemHealth = [s \in Sessions |-> None]
  /\ totalCost = [s \in Sessions |-> 0]
  /\ sessionContext = [s \in Sessions |-> InitialSessionContext]
  /\ inflight = [s \in Sessions |-> <<>>]
  /\ healthPending = [s \in Sessions |-> TRUE]
  /\ storedCost = None
  /\ billed = 0
  /\ enginePc = "idle"
  /\ engineTranscript = <<>>
  /\ attempts = 0
  /\ schemaRetries = 0
  /\ transportRetries = 0
  /\ lastOutput = [ kind |-> "none", value |-> None ]
  /\ engineResult = [ status |-> "none", analysis |-> None ]
  /\ engineContext = InitialSessionContext
  /\ engineMessages = <<>>
  /\ engineFormatted = None
  /\ artifacts = [ t \in DocumentTypes |-> "v0" ]
  /\ updateResult = None
  /\ script = "none"
  /\ pc = "not_started"
  /\ idx = 1
  /\ proc = [ s \in Services |-> "none" ]
  /\ healthy = [ s \in Services |-> FALSE ]
  /\ attempt = 1
  /\ polls = 0
  /\ answered = {}
  /\ trapSet = FALSE
  /\ stillStarting = FALSE
  /\ reported = {}

\* ------------------------------------------------------------- requests
\* a payload that leaves the transcript of the incident out
SessionContextPayloadNoTranscript(ctx) ==
  IF ctx.hasActiveIncident /\ ctx.lastAnalysis # None
    THEN Some([ has_active_incident |-> TRUE,
                last_analysis |-> ctx.lastAnalysis[1],
                incident_summary |-> ctx.incidentSummary,
                original_transcript |-> None ])
    ELSE None

\* requestPayload.session_context of POST /chat: present only while an
\* incident is active
SessionContextPayload(ctx) ==
  IF ctx.hasActiveIncident /\ ctx.lastAnalysis # None
    THEN Some([ has_active_incident |-> TRUE,
                last_analysis |-> ctx.lastAnalysis[1],
                incident_summary |-> ctx.incidentSummary,
                original_transcript |-> ctx.originalTranscript ])
    ELSE None

\* A request in flight: what was posted, and what the closure of the handler
\* that posted it captured (the input text and totalCost of that render).
ChatRequest(s) ==
  [ kind |-> "chat",
    text |-> message[s],
    session_context |-> SessionContextPayload(sessionContext[s]),
    totalCost |-> totalCost[s] ]

AnalyzeRequest(s) ==
  [ kind |-> "analyze",
    text |-> transcript[s],
    session_context |-> None,
    totalCost |-> totalCost[s] ]

\* What axios.post can settle with.  ok = FALSE is a rejected promise (no
\* connection, timeout, or a non-2xx status).  data = None is a 2xx body whose
\* analysis object lacks the members the handler dereferences.
ChatResponses ==
  [ ok : {FALSE}, type : {"error"}, data : {None}, cost : {0} ]
  \cup [ ok : {TRUE}, type : {"transcript_analysis"},
         data : {None} \cup { Some(a) : a \in AnalysisData }, cost : Costs ]
  \cup [ ok : {TRUE}, type : {"policy_question", "contextual_followup"},
         data : {None}, cost : Costs ]

AnalyzeResponses ==
  [ ok : {FALSE}, type : {"error"}, data : {None}, cost : {0} ]
  \cup [ ok : {TRUE}, type : {"direct_analysis"},
         data : {None} \cup { Some(a) : a \in AnalysisData }, cost : Costs ]

\* the model follows the pages while their chat histories together hold fewer
\* than MaxMessages entries besides the welcome message of the other page
RECURSIVE TotalMessages(_)
TotalMessages(pages) ==
  IF pages = {} THEN 0
  ELSE LET p == CHOOSE q \in pages : TRUE
       IN Len(messages[p]) + TotalMessages(pages \ {p})

HistoryRoom == TotalMessages(Sessions) < MaxMessages + Cardinality(Sessions) - 1

RemoveAt(seq, i) == SubSeq(seq, 1, i - 1) \o SubSeq(seq, i + 1, Len(seq))

\* ------------------------------------------------------ session context
\* an analysis recorded without the transcript it was made from
RecordedContextWithoutTranscript(analysisData, text, now) ==
  [ hasActiveIncident |-> TRUE,
    lastAnalysis |-> Some(analysisData),
    incidentSummary |-> analysisData.analysis.summary,
    lastTranscriptTime |-> Some(now),
    originalTranscript |-> None ]

\* the object both handlers pass to setSessionContext after an analysis
RecordedContext(analysisData, text, now) ==
  [ hasActiveIncident |-> TRUE,
    lastAnalysis |-> Some(analysisData),
    incidentSummary |-> analysisData.analysis.summary,
    lastTranscriptTime |-> Some(now),
    originalTranscript |-> Some(text) ]

\* a clear that drops the analysis but leaves the flag as it was
ClearedContextKeepsFlag(ctx) ==
  [ ctx EXCEPT !.lastAnalysis = None, !.incidentSummary = "",
               !.lastTranscriptTime = None, !.originalTranscript = None ]

\* the object clearSessionContext passes to setSessionContext
ClearedContext(ctx) ==
  [ hasActiveIncident |-> FALSE,
    lastAnalysis |-> None,
    incidentSummary |-> "",
    lastTranscriptTime |-> None,
    originalTranscript |-> None ]

\* ------------------------------------------------------------ cost total
\* const newCost = totalCost + (data.cost || 0), totalCost being the value
\* the handler's closure captured
\* the total replaced by the cost of the last call
NewCostOfLastCall(capturedTotal, cost) == cost

NewCost(capturedTotal, cost) == capturedTotal + cost

\* ----------------------------------------------------- POST /chat handler
\* the try block of sendChatMessage runs to its end
\* the cost of a reply is counted although its analysis could not be recorded
ChatSucceedsOnAnyReply(resp) == resp.ok

ChatSucceeds(resp) ==
  resp.ok /\ (resp.type = "transcript_analysis" => resp.data # None)

\* the flag is raised before the analysis of the reply is dereferenced
ChatContextFlagFirst(ctx, req, resp, now) ==
  IF resp.ok /\ resp.type = "transcript_analysis"
    THEN IF resp.data # None
      THEN RecordedContext(resp.data[1], req.text, now)
      ELSE [ ctx EXCEPT !.hasActiveIncident = TRUE ]
    ELSE ctx

\* an answered question stamps the context with the time of the answer
ChatContextTouchedByAnswer(ctx, req, resp, now) ==
  IF resp.ok /\ resp.type = "transcript_analysis" /\ resp.data # None
    THEN RecordedContext(resp.data[1], req.text, now)
    ELSE IF resp.ok /\ resp.type # "transcript_analysis"
      THEN [ ctx EXCEPT !.lastTranscriptTime = Some(now) ]
      ELSE ctx

\* a rejected request resets the context
ChatContextResetOnError(ctx, req, resp, now) ==
  IF resp.ok /\ resp.type = "transcript_analysis" /\ resp.data # None
    THEN RecordedContext(resp.data[1], req.text, now)
    ELSE IF ~resp.ok THEN ClearedContext(ctx) ELSE ctx

ChatContext(ctx, req, resp, now) ==
  IF resp.ok /\ resp.type = "transcript_analysis" /\ resp.data # None
    THEN RecordedContext(resp.data[1], req.text, now)
    ELSE ctx

ChatMessages(msgs, resp) ==
  IF ~resp.ok
    THEN Append(msgs, NewMessage("system", "Error", None))
    ELSE IF resp.type = "transcript_analysis"
      THEN IF resp.data # None
        THEN Append(msgs, NewMessage("analysis", "data.message", resp.data))
        ELSE Append(Append(msgs, NewMessage("analysis", "data.message", None)),
                    NewMessage("system", "Error", None))
      ELSE Append(msgs, NewMessage("ai", "data.message", None))

\* -------------------------------------------------- POST /analyze handler
\* the try block of analyzeTranscript runs to its end
AnalyzeSucceeds(resp) == resp.ok /\ resp.data # None

\* a failed analysis resets the context
AnalyzeContextResetOnFailure(ctx, req, resp, now) ==
  IF resp.ok /\ resp.data # None
    THEN RecordedContext(resp.data[1], req.text, now)
    ELSE ClearedContext(ctx)

\* a new analysis is merged into an active context: the first transcript stays
AnalyzeContextMerged(ctx, req, resp, now) ==
  IF resp.ok /\ resp.data # None
    THEN IF ctx.hasActiveIncident
      THEN [ RecordedContext(resp.data[1], req.text, now)
               EXCEPT !.originalTranscript = ctx.originalTranscript ]
      ELSE RecordedContext(resp.data[1], req.text, now)
    ELSE ctx

AnalyzeContext(ctx, req, resp, now) ==
  IF resp.ok /\ resp.data # None
    THEN RecordedContext(resp.data[1], req.text, now)
    ELSE ctx

\* the catch block shows the failed output as an analysis
AnalyzeMessagesAnalysisOnFailure(msgs, resp) ==
  Append(msgs, NewMessage("analysis", "INCIDENT ANALYSIS", resp.data))

\* the catch block swallows the failure
AnalyzeMessagesSilentFailure(msgs, resp) ==
  IF resp.ok /\ resp.data # None
    THEN Append(msgs, NewMessage("analysis", "INCIDENT ANALYSIS", resp.data))
    ELSE msgs

AnalyzeMessages(msgs, resp) ==
  IF resp.ok /\ resp.data # None
    THEN Append(msgs, NewMessage("analysis", "INCIDENT ANALYSIS", resp.data))
    ELSE Append(msgs, NewMessage("system", "Analysis failed", None))

\* ------------------------------------------------------------- rendering
\* the chat input is left enabled during a request
ChatInputAlwaysEnabled(s) == TRUE

\* the chat textarea and, for a non-blank message, the send button accept
\* input: disabled={isLoading}
ChatInputEnabled(s) == ~isLoading[s]

\* the transcript textarea: disabled={isLoading}
TranscriptInputEnabled(s) == ~isLoading[s]

\* the analyze button: disabled={isLoading || !transcript.trim()}
AnalyzeButtonEnabled(s) == ~isLoading[s] /\ Trim(transcript[s]) # <<>>

\* the Clear Context button is rendered inside
\* {sessionContext.hasActiveIncident && ...}
ClearButtonRendered(s) == sessionContext[s].hasActiveIncident

\* ---------------------------------------------------------- finally block
\* the loading flag is lowered in the try block only, not after a failure
LoadingAfterResponseNoFinally(succeeded) == ~succeeded

\* finally { setIsLoading(false) }: the value of isLoading once a response
\* has been handled, whether the try block ran to its end or not
LoadingAfterResponse(succeeded) == FALSE

\* ------------------------------------------------------ input validation
\* a check that forgets to trim
BlankInputOnlyEmpty(text) == text = <<>>

\* !message.trim() and !transcript.trim(): nothing but white space
BlankInput(text) == Trim(text) = <<>>

\* ---------------------------------------------------------------- actions
handleMessageChange(s, v) ==
  /\ ChatInputEnabled(s)
  /\ v # message[s]
  /\ message' = [message EXCEPT ![s] = v]
  /\ UNCHANGED << messages, transcript, isLoading, systemHealth, totalCost,
                  sessionContext, inflight, healthPending, storedCost, billed >>
  /\ UNCHANGED << engineVars, updateVars, startVars >>

handleTranscriptChange(s, v) ==
  /\ TranscriptInputEnabled(s)
  /\ v # transcript[s]
  /\ transcript' = [transcript EXCEPT ![s] = v]
  /\ UNCHANGED << message, messages, isLoading, systemHealth, totalCost,
                  sessionContext, inflight, healthPending, storedCost, billed >>
  /\ UNCHANGED << engineVars, updateVars, startVars >>

\* The send button, or Enter in the chat input; both are disabled while
\* isLoading.
sendChatMessage(s) ==
  /\ ChatInputEnabled(s)
  /\ HistoryRoom
  /\ IF BlankInput(message[s])
       THEN UNCHANGED vars
       ELSE /\ messages' = [messages EXCEPT ![s] =
                             Append(@, NewMessage("user", "message", None))]
            /\ message' = [message EXCEPT ![s] = <<>>]
            /\ isLoading' = [isLoading EXCEPT ![s] = TRUE]
            /\ inflight' = [inflight EXCEPT ![s] = Append(@, ChatRequest(s))]
            /\ UNCHANGED << transcript, systemHealth, totalCost, sessionContext,
                            healthPending, storedCost, billed >>
  /\ UNCHANGED << engineVars, updateVars, startVars >>

\* The response of a chat request arrives: the rest of sendChatMessage.
chatResponse(s, i, resp, now) ==
  LET req == inflight[s][i] IN
  /\ req.kind = "chat"
  /\ billed + resp.cost <= MaxTotalCost
  /\ messages' = [messages EXCEPT ![s] = ChatMessages(@, resp)]
  /\ sessionContext' = [sessionContext EXCEPT ![s] = ChatContext(@, req, resp, now)]
  /\ IF ChatSucceeds(resp)
       THEN /\ totalCost' = [totalCost EXCEPT ![s] = NewCost(req.totalCost, resp.cost)]
            /\ storedCost' = Some(NumberToString(NewCost(req.totalCost, resp.cost)))
            /\ billed' = billed + resp.cost
       ELSE UNCHANGED << totalCost, storedCost, billed >>
  /\ isLoading' = [isLoading EXCEPT ![s] = LoadingAfterResponse(ChatSucceeds(resp))]
  /\ inflight' = [inflight EXCEPT ![s] = RemoveAt(@, i)]
  /\ UNCHANGED << message, transcript, systemHealth, healthPending >>
  /\ UNCHANGED << engineVars, updateVars, startVars >>

\* The analyze button; disabled while isLoading or the transcript is blank.
analyzeTranscript(s) ==
  /\ AnalyzeButtonEnabled(s)
  /\ HistoryRoom
  /\ IF BlankInput(transcript[s])
       THEN /\ messages' = [messages EXCEPT ![s] =
                 Append(@, NewMessage("system", "Please enter a call transcript", None))]
            /\ UNCHANGED << isLoading, inflight >>
       ELSE /\ messages' = [messages EXCEPT ![s] =
                 Append(@, NewMessage("user", "Analyzing call transcript", None))]
            /\ isLoading' = [isLoading EXCEPT ![s] = TRUE]
            /\ inflight' = [inflight EXCEPT ![s] = Append(@, AnalyzeRequest(s))]
  /\ UNCHANGED << message, transcript, systemHealth, totalCost, sessionContext,
                  healthPending, storedCost, billed >>
  /\ UNCHANGED << engineVars, updateVars, startVars >>

\* The response of an analyze request arrives: the rest of analyzeTranscript.
analyzeResponse(s, i, resp, now) ==
  LET req == inflight[s][i] IN
  /\ req.kind = "analyze"
  /\ billed + resp.cost <= MaxTotalCost
  /\ messages' = [messages EXCEPT ![s] = AnalyzeMessages(@, resp)]
  /\ sessionContext' = [sessionContext EXCEPT ![s] = AnalyzeContext(@, req, resp, now)]
  /\ IF AnalyzeSucceeds(resp)
       THEN /\ totalCost' = [totalCost EXCEPT ![s] = NewCost(req.totalCost, resp.cost)]
            /\ storedCost' = Some(NumberToString(NewCost(req.totalCost, resp.cost)))
            /\ billed' = billed + resp.cost
       ELSE UNCHANGED << totalCost, storedCost, billed >>
  /\ isLoading' = [isLoading EXCEPT ![s] = LoadingAfterResponse(AnalyzeSucceeds(resp))]
  /\ inflight' = [inflight EXCEPT ![s] = RemoveAt(@, i)]
  /\ UNCHANGED << message, transcript, systemHealth, healthPending >>
  /\ UNCHANGED << engineVars, updateVars, startVars >>

\* The Clear Context button; rendered only while an incident is active.
clearSessionContext(s) ==
  /\ ClearButtonRendered(s)
  /\ sessionContext' = [sessionContext EXCEPT ![s] = ClearedContext(@)]
  /\ messages' = [messages EXCEPT ![s] =
                    Append(@, NewMessage("system", "Session context cleared", None))]
  /\ UNCHANGED << message, transcript, isLoading, systemHealth, totalCost,
                  inflight, healthPending, storedCost, billed >>
  /\ UNCHANGED << engineVars, updateVars, startVars >>

\* The GET /health that checkSystemHealth issued at mount settles.
checkSystemHealth(s, status) ==
  /\ healthPending[s]
  /\ healthPending' = [healthPending EXCEPT ![s] = FALSE]
  /\ systemHealth' = [systemHealth EXCEPT ![s] = Some(status)]
  /\ UNCHANGED << message, messages, transcript, isLoading, totalCost,
                  sessionContext, inflight, storedCost, billed >>
  /\ UNCHANGED << engineVars, updateVars, startVars >>

\* a reload that restores the incident the page held
reloadKeepsContext(s) ==
  /\ message' = [message EXCEPT ![s] = <<>>]
  /\ messages' = [messages EXCEPT ![s] = <<WelcomeMessage>>]
  /\ transcript' = [transcript EXCEPT ![s] = <<>>]
  /\ isLoading' = [isLoading EXCEPT ![s] = FALSE]
  /\ systemHealth' = [systemHealth EXCEPT ![s] = None]
  /\ totalCost' = [totalCost EXCEPT ![s] =
                     IF storedCost # None THEN ParseFloat(storedCost[1]) ELSE 0]
  /\ inflight' = [inflight EXCEPT ![s] = <<>>]
  /\ healthPending' = [healthPending EXCEPT ![s] = TRUE]
  /\ UNCHANGED << sessionContext, storedCost, billed >>
  /\ UNCHANGED << engineVars, updateVars, startVars >>

\* a reload that resets a context store all pages share
reloadResetsAllPages(s) ==
  /\ message' = [message EXCEPT ![s] = <<>>]
  /\ messages' = [messages EXCEPT ![s] = <<WelcomeMessage>>]
  /\ transcript' = [transcript EXCEPT ![s] = <<>>]
  /\ isLoading' = [isLoading EXCEPT ![s] = FALSE]
  /\ systemHealth' = [systemHealth EXCEPT ![s] = None]
  /\ totalCost' = [totalCost EXCEPT ![s] =
                     IF storedCost # None THEN ParseFloat(storedCost[1]) ELSE 0]
  /\ sessionContext' = [t \in Sessions |-> InitialSessionContext]
  /\ inflight' = [inflight EXCEPT ![s] = <<>>]
  /\ healthPending' = [healthPending EXCEPT ![s] = TRUE]
  /\ UNCHANGED << storedCost, billed >>
  /\ UNCHANGED << engineVars, updateVars, startVars >>

\* The page is reloaded: the component is rebuilt from its useState initial
\* values, the requests of the old page are abandoned, and the mount effect
\* runs (health check, saved cost, welcome message).
reload(s) ==
  /\ message' = [message EXCEPT ![s] = <<>>]
  /\ messages' = [messages EXCEPT ![s] = <<WelcomeMessage>>]
  /\ transcript' = [transcript EXCEPT ![s] = <<>>]
  /\ isLoading' = [isLoading EXCEPT ![s] = FALSE]
  /\ systemHealth' = [systemHealth EXCEPT ![s] = None]
  /\ totalCost' = [totalCost EXCEPT ![s] =
                     IF storedCost # None THEN ParseFloat(storedCost[1]) ELSE 0]
  /\ sessionContext' = [sessionContext EXCEPT ![s] = InitialSessionContext]
  /\ inflight' = [inflight EXCEPT ![s] = <<>>]
  /\ healthPending' = [healthPending EXCEPT ![s] = TRUE]
  /\ UNCHANGED << storedCost, billed >>
  /\ UNCHANGED << engineVars, updateVars, startVars >>

\* One page open: every operation of the page, with every input.
Next ==
  \E s \in {"page1"} :
    \/ \E v \in Texts : handleMessageChange(s, v)
    \/ \E v \in Texts : handleTranscriptChange(s, v)
    \/ sendChatMessage(s)
    \/ \E i \in 1..Len(inflight[s]), resp \in ChatResponses, now \in Times :
         chatResponse(s, i, resp, now)
    \/ analyzeTranscript(s)
    \/ \E i \in 1..Len(inflight[s]), resp \in AnalyzeResponses, now \in Times :
         analyzeResponse(s, i, resp, now)
    \/ clearSessionContext(s)
    \/ \E status \in {"healthy", "unhealthy"} : checkSystemHealth(s, status)
    \/ reload(s)

Spec == Init /\ [][Next]_vars

\* The services behind POST /chat and POST /analyze answer every request they
\* receive, with a result or with an error: their call to the analysis
\* capability is bounded by a timeout.  The page then runs the rest of the
\* handler that awaits the answer.
ServerAnswers(s) ==
  \E i \in 1..Len(inflight[s]), now \in Times :
    \/ \E resp \in ChatResponses : chatResponse(s, i, resp, now)
    \/ \E resp \in AnalyzeResponses : analyzeResponse(s, i, resp, now)

\* One page open, every request answered.
SpecLive == Init /\ [][Next]_vars /\ \A s \in Sessions : WF_vars(ServerAnswers(s))

\* Two pages open side by side, sharing localStorage; the user types one text,
\* the health checks of the pages stay unanswered, and the pages are followed
\* while their histories have room for the notice of a clear.
SharedTexts == { <<>>, <<"a">> }

SharedNext ==
  \E s \in Sessions :
    \/ \E v \in SharedTexts : handleMessageChange(s, v)
    \/ \E v \in SharedTexts : handleTranscriptChange(s, v)
    \/ sendChatMessage(s)
    \/ \E i \in 1..Len(inflight[s]), resp \in ChatResponses, now \in Times :
         chatResponse(s, i, resp, now)
    \/ analyzeTranscript(s)
    \/ \E i \in 1..Len(inflight[s]), resp \in AnalyzeResponses, now \in Times :
         analyzeResponse(s, i, resp, now)
    \/ HistoryRoom /\ clearSessionContext(s)
    \/ reload(s)

SpecShared == Init /\ [][SharedNext]_vars


\* ------------------------------------------------- the analysis engine
\* The services behind POST /analyze: the adapter that calls the external
\* text-generation capability and the orchestrator that builds the result.
MaxPolicies == 3

\* retries the adapter allows itself in one call
SchemaRetryLimit == 2
TransportRetryLimit == 1

PolicySections == { "Section 1", "Section 2" }

\* the lists analysis.triggered_policies can be: every entry names a section
\* and gives a reason of its own, numbered here by the place of the entry in
\* the output of the capability
PolicyLists ==
  UNION { { [ i \in 1..n |-> [ section |-> f[i], reason |-> i ] ] :
              f \in [1..n -> PolicySections] } : n \in 0..MaxPolicies }

\* the fields every incident report has, in the order of the schema
RequiredFields == << "reporter", "description" >>

\* an incident report is the list of its (field, value) entries; a field of
\* the schema can be absent, empty or filled in
ReportOf(f) ==
  SelectSeq([i \in 1..Len(RequiredFields) |-> << RequiredFields[i], f[i] >>],
            LAMBDA entry : entry[2] # "absent")

IncidentReports ==
  { ReportOf(f) : f \in [1..Len(RequiredFields) -> {"absent", "", "text"}] }

EmailDrafts ==
  { << [ recipient_type |-> "supervisor", subject |-> "Incident",
         urgency |-> "high", cc |-> << "risk-assessor" >>, body |-> "text" ] >> }

\* the outputs of the capability that parse as an analysis
RawAnalyses ==
  [ analysis : [ summary : {"fall"}, triggered_policies : PolicyLists,
                 required_actions : { << "call the GP" >> } ],
    incident_report : IncidentReports,
    emails : EmailDrafts ]

\* what one invocation of the capability can come back with
CapabilityOutputs ==
  [ kind : {"transport_failure", "malformed"}, value : {None} ]
  \cup [ kind : {"json"}, value : { Some(a) : a \in RawAnalyses } ]

\* keep the first entry of every policy section, in the order of the list
RECURSIVE Dedup(_)
Dedup(policies) ==
  IF policies = <<>> THEN <<>>
  ELSE LET rest == Dedup(SubSeq(policies, 1, Len(policies) - 1))
           last == policies[Len(policies)]
       IN IF \E i \in 1..Len(rest) : rest[i].section = last.section
            THEN rest
            ELSE Append(rest, last)

\* every field of the schema is present in the report, with a non-empty value
ReportComplete(report) ==
  \A i \in 1..Len(RequiredFields) :
    \E j \in 1..Len(report) :
      report[j][1] = RequiredFields[i] /\ report[j][2] # ""

\* the orchestrator's result for an output that parsed
OrchestratorResult(raw) ==
  IF ReportComplete(raw.incident_report)
    THEN [ status |-> "ok",
           analysis |-> Some([ raw EXCEPT !.analysis.triggered_policies =
                                             Dedup(@) ]) ]
    ELSE [ status |-> "SchemaError", analysis |-> None ]

\* the HTTP answer of POST /analyze for a result
EngineResponse(result) ==
  IF result.status = "ok"
    THEN [ ok |-> TRUE, type |-> "direct_analysis", data |-> result.analysis,
           cost |-> 0 ]
    ELSE [ ok |-> FALSE, type |-> "error", data |-> None, cost |-> 0 ]

\* ---- formatAnalysisResponse: the text of an analysis message, as the list
\* of the lines of each of its sections
\* the bullets are written newest first
TriggeredPolicyLinesReversed(policies) ==
  [ i \in 1..Len(policies) |->
      << policies[Len(policies) + 1 - i].section,
         policies[Len(policies) + 1 - i].reason >> ]

\* triggered_policies.forEach: one bullet "section: reason" per entry
TriggeredPolicyLines(policies) ==
  [ i \in 1..Len(policies) |-> << policies[i].section, policies[i].reason >> ]

\* required_actions.forEach: one bullet per action
RequiredActionLines(actions) == actions

\* the bullets show the first entry of the report only
IncidentReportLinesFirstOnly(report) ==
  IF report = <<>> THEN <<>> ELSE << << report[1][1], report[1][2] >> >>

\* Object.entries(incident_report).forEach: one bullet "field: value" per entry
IncidentReportLines(report) ==
  [ i \in 1..Len(report) |-> << report[i][1], report[i][2] >> ]

\* String.prototype.toUpperCase on the values the drafts carry
ToUpperCase(str) ==
  CASE str = "supervisor" -> "SUPERVISOR"
    [] str = "high" -> "HIGH"
    [] OTHER -> str

\* emails.forEach: To, Subject, Urgency, CC when there is one, and the body
EmailBlocks(emails) ==
  [ i \in 1..Len(emails) |->
      [ to |-> ToUpperCase(emails[i].recipient_type),
        subject |-> emails[i].subject,
        urgency |-> ToUpperCase(emails[i].urgency),
        cc |-> IF Len(emails[i].cc) > 0 THEN Some(emails[i].cc) ELSE None,
        body |-> emails[i].body ] ]

formatAnalysisResponse(analysis) ==
  [ summary |-> analysis.analysis.summary,
    policies |-> TriggeredPolicyLines(analysis.analysis.triggered_policies),
    actions |-> RequiredActionLines(analysis.analysis.required_actions),
    report |-> IncidentReportLines(analysis.incident_report),
    emails |-> EmailBlocks(analysis.emails) ]

\* ---- one call of POST /analyze, from the page and back
\* the page posts a transcript (analyzeTranscript has let it through)
engineCall(text) ==
  /\ enginePc = "idle"
  /\ ~BlankInput(text)
  /\ enginePc' = "calling"
  /\ engineTranscript' = text
  /\ engineMessages' = <<>>
  /\ engineFormatted' = None
  /\ UNCHANGED << attempts, schemaRetries, transportRetries, lastOutput,
                  engineResult, engineContext, pageVars, updateVars, startVars >>

\* one invocation of the capability comes back
capabilityReturns(out) ==
  /\ enginePc = "calling"
  /\ attempts' = attempts + 1
  /\ lastOutput' = out
  /\ CASE out.kind = "transport_failure" ->
            IF transportRetries < TransportRetryLimit
              THEN /\ transportRetries' = transportRetries + 1
                   /\ UNCHANGED << enginePc, engineResult, schemaRetries >>
              ELSE /\ engineResult' = [ status |-> "CapabilityError",
                                        analysis |-> None ]
                   /\ enginePc' = "returned"
                   /\ UNCHANGED << schemaRetries, transportRetries >>
       [] out.kind = "malformed" ->
            IF schemaRetries < SchemaRetryLimit
              THEN /\ schemaRetries' = schemaRetries + 1
                   /\ UNCHANGED << enginePc, engineResult, transportRetries >>
              ELSE /\ engineResult' = [ status |-> "SchemaError",
                                        analysis |-> None ]
                   /\ enginePc' = "returned"
                   /\ UNCHANGED << schemaRetries, transportRetries >>
       [] out.kind = "json" ->
            /\ engineResult' = OrchestratorResult(out.value[1])
            /\ enginePc' = "returned"
            /\ UNCHANGED << schemaRetries, transportRetries >>
  /\ UNCHANGED << engineTranscript, engineContext, engineMessages,
                  engineFormatted, pageVars, updateVars, startVars >>

\* the answer reaches the page: the rest of analyzeTranscript
engineAnswer(now) ==
  LET resp == EngineResponse(engineResult)
      req == [ kind |-> "analyze", text |-> engineTranscript,
               session_context |-> None, totalCost |-> 0 ]
  IN /\ enginePc = "returned"
     /\ enginePc' = "shown"
     /\ engineFormatted' = IF AnalyzeSucceeds(resp)
                             THEN Some(formatAnalysisResponse(resp.data[1]))
                             ELSE None
     /\ engineMessages' = AnalyzeMessages(engineMessages, resp)
     /\ engineContext' = AnalyzeContext(engineContext, req, resp, now)
     /\ UNCHANGED << engineTranscript, attempts, schemaRetries,
                     transportRetries, lastOutput, engineResult, pageVars,
                     updateVars, startVars >>

\* the page is ready for the next transcript; the call is over
engineDone ==
  /\ enginePc = "shown"
  /\ enginePc' = "idle"
  /\ engineTranscript' = <<>>
  /\ attempts' = 0
  /\ schemaRetries' = 0
  /\ transportRetries' = 0
  /\ lastOutput' = [ kind |-> "none", value |-> None ]
  /\ engineResult' = [ status |-> "none", analysis |-> None ]
  /\ UNCHANGED << engineContext, engineMessages, engineFormatted, pageVars,
                  updateVars, startVars >>

EngineNext ==
  \/ \E text \in SharedTexts : engineCall(text)
  \/ \E out \in CapabilityOutputs : capabilityReturns(out)
  \/ \E now \in Times : engineAnswer(now)
  \/ engineDone

\* One page analysing transcripts, the engine followed step by step.
SpecEngine == Init /\ [][EngineNext]_vars

\* ------------------------------------------- the document updates
\* The consistency manager behind the document editor: one artifact is edited
\* on the user's feedback and the others follow where the edit requires it.
Contents == { "v0", "v1" }

\* what the capability answers to an update: the content its response gives
\* every artifact, and the artifacts it names as cross-updated
UpdateOutputs ==
  [ documents : [DocumentTypes -> Contents],
    cross_updates : SUBSET (DocumentTypes \cup {"care_plan"}) ]

\* the scope of an update is taken on trust
ScopeUnchecked(type, all, out) == TRUE

\* the response leaves every artifact outside the declared scope as it was
ScopeRespected(type, all, out) ==
  \A t \in (DOMAIN all) \ ({type} \cup out.cross_updates) :
    out.documents[t] = all[t]

UpdateStatus(feedback, type, all, out) ==
  IF BlankInput(feedback) THEN "ValidationError"
  ELSE IF out.documents[type] = all[type] THEN "ValidationError"
  ELSE IF ~(out.cross_updates \subseteq DOMAIN all) THEN "SchemaError"
  ELSE IF ~ScopeRespected(type, all, out) THEN "ConsistencyViolation"
  ELSE "ok"

\* updateDocument(feedback, type, content, all), the capability answering out
updateDocument(feedback, type, out) ==
  LET status == UpdateStatus(feedback, type, artifacts, out) IN
  /\ updateResult = None
  /\ updateResult' =
       Some([ status |-> status,
              type |-> type,
              before |-> artifacts,
              returned |-> IF status = "ok" THEN out.documents ELSE artifacts,
              cross_updates |-> out.cross_updates ])
  /\ UNCHANGED << artifacts, pageVars, engineVars, startVars >>

\* the caller settles the result: it commits a successful update or drops it
settleUpdate(commit) ==
  /\ updateResult # None
  /\ artifacts' = IF commit /\ updateResult[1].status = "ok"
                    THEN updateResult[1].returned
                    ELSE artifacts
  /\ updateResult' = None
  /\ UNCHANGED << pageVars, engineVars, startVars >>

UpdateNext ==
  \/ \E feedback \in SharedTexts, type \in DocumentTypes, out \in UpdateOutputs :
       updateDocument(feedback, type, out)
  \/ \E commit \in BOOLEAN : settleUpdate(commit)

\* The artifacts of one incident under a series of updates.
SpecUpdate == Init /\ [][UpdateNext]_vars

\* ------------------------------------------------- the start scripts
\* start_assessment.sh and start_careDocQA.sh: one run of one of them, the
\* processes it launches, and the signals it can receive.
Scripts == { "start_assessment", "start_careDocQA" }

\* local max_attempts=30
MaxAttempts == 30

\* the services a script launches and then waits for, in the order of the script
LaunchOrder(sc) ==
  IF sc = "start_assessment"
    THEN << "incident-processor", "api-gateway" >>
    ELSE << "document-service", "ai-service", "api-gateway", "frontend" >>

\* the services health_check is called for, in the order of the calls
HealthOrder == << "incident-processor", "api-gateway", "frontend" >>

\* the service the script is launching or waiting for
current == LaunchOrder(script)[idx]

\* curl -s "$url" succeeds
Answers(s) == proc[s] = "running" /\ healthy[s]

\* a script without set -e
ExitOnErrorOff(status) == FALSE

\* set -e: a command that returns a non-zero status ends the script
ExitOnError(status) == status # 0

\* a wait loop that makes one poll more
WaitLoopOneMore(a) == a <= MaxAttempts + 1

\* while [ $attempt -le $max_attempts ]
WaitLoopContinues(a) == a <= MaxAttempts

\* a trap for the signals only
CareTrapSignalsOnly(event) == event \in { "INT", "TERM" }

\* start_careDocQA.sh: trap cleanup EXIT INT TERM
CareTrapCovers(event) == event \in { "EXIT", "INT", "TERM" }

\* start_assessment.sh: trap cleanup SIGINT SIGTERM
AssessmentTrapCovers(event) == event \in { "INT", "TERM" }

\* cleanup of start_careDocQA.sh: kill_service for the four PIDs (TERM, then
\* KILL), kill -KILL for what holds the ports, pkill for what is left
Stopped(p) == [ s \in Services |-> IF p[s] = "running" THEN "dead" ELSE p[s] ]

\* cleanup of start_assessment.sh: jobs -p | xargs -r kill, then pkill
JobsKilled(p) == [ s \in Services |-> IF p[s] = "running" THEN "dead" ELSE p[s] ]

\* the script ends; bash runs the EXIT trap when there is one
Exits ==
  /\ pc' = "exited"
  /\ IF script = "start_careDocQA" /\ trapSet /\ CareTrapCovers("EXIT")
       THEN /\ proc' = Stopped(proc)
            /\ healthy' = [ s \in Services |-> FALSE ]
       ELSE UNCHANGED << proc, healthy >>

\* the script goes on after the wait for the current service
GoesOn ==
  /\ UNCHANGED << proc, healthy >>
  /\ IF idx < Len(LaunchOrder(script))
       THEN pc' = "launch" /\ idx' = idx + 1
       ELSE /\ pc' = IF script = "start_assessment" THEN "fe_install" ELSE "monitor"
            /\ UNCHANGED idx

\* start_service or wait_for_service returns status
Returned(status) ==
  IF ExitOnError(status) THEN Exits /\ UNCHANGED idx ELSE GoesOn

\* the user runs one of the scripts
run(sc) ==
  /\ pc = "not_started"
  /\ script' = sc
  /\ pc' = IF sc = "start_careDocQA" THEN "trap" ELSE "prereq"
  /\ UNCHANGED << idx, proc, healthy, attempt, polls, answered, trapSet,
                  stillStarting, reported, pageVars, engineVars, updateVars >>

\* trap cleanup ...: the first thing start_careDocQA.sh does, the last thing
\* start_assessment.sh does before its monitor loop
installTrap ==
  /\ pc = "trap"
  /\ trapSet' = TRUE
  /\ pc' = IF script = "start_careDocQA" THEN "prereq" ELSE "monitor"
  /\ UNCHANGED << script, idx, proc, healthy, attempt, polls, answered,
                  stillStarting, reported, pageVars, engineVars, updateVars >>

\* the checks of the environment and of the ports: exit 1 when one fails
checkPrerequisites(ok) ==
  /\ pc = "prereq"
  /\ IF ok
       THEN pc' = "launch" /\ UNCHANGED << proc, healthy >>
       ELSE Exits
  /\ UNCHANGED << script, idx, attempt, polls, answered, trapSet,
                  stillStarting, reported, pageVars, engineVars, updateVars >>

\* the current service is launched in the background; start_careDocQA.sh
\* first runs npm install for the frontend when node_modules is missing
launch(installed) ==
  /\ pc = "launch"
  /\ IF ~installed /\ script = "start_careDocQA" /\ current = "frontend"
        /\ ExitOnError(1)
       THEN Exits /\ UNCHANGED << attempt, polls >>
       ELSE /\ proc' = [ proc EXCEPT ![current] = "running" ]
            /\ healthy' = [ healthy EXCEPT ![current] = FALSE ]
            /\ attempt' = 1
            /\ polls' = 0
            /\ pc' = "poll"
  /\ UNCHANGED << script, idx, answered, trapSet, stillStarting, reported,
                  pageVars, engineVars, updateVars >>

\* one turn of the wait loop of start_service / wait_for_service: the loop
\* test, the poll, and after a failed poll sleep 1 and attempt + 1
poll ==
  /\ pc = "poll"
  /\ IF WaitLoopContinues(attempt)
       THEN /\ polls' = polls + 1
            /\ IF Answers(current)
                 THEN /\ answered' = answered \cup { current }
                      /\ Returned(0)
                      /\ UNCHANGED attempt
                 ELSE /\ attempt' = attempt + 1
                      /\ pc' = IF script = "start_assessment" THEN "alive" ELSE "poll"
                      /\ UNCHANGED << idx, proc, healthy, answered >>
       ELSE /\ Returned(1)
            /\ UNCHANGED << attempt, polls, answered >>
  /\ UNCHANGED << script, trapSet, stillStarting, reported, pageVars,
                  engineVars, updateVars >>

\* start_service: kill -0 $pid at the end of a turn of the loop
alive ==
  /\ pc = "alive"
  /\ IF proc[current] = "running"
       THEN pc' = "poll" /\ UNCHANGED << idx, proc, healthy >>
       ELSE Returned(1)
  /\ UNCHANGED << script, attempt, polls, answered, trapSet, stillStarting,
                  reported, pageVars, engineVars, updateVars >>

\* start_assessment.sh: npm install when node_modules is missing, then
\* npm start in the background
startFrontend(installed) ==
  /\ pc = "fe_install"
  /\ IF ~installed /\ ExitOnError(1)
       THEN Exits
       ELSE /\ proc' = [ proc EXCEPT !["frontend"] = "running" ]
            /\ healthy' = [ healthy EXCEPT !["frontend"] = FALSE ]
            /\ pc' = "fe_ready"
  /\ UNCHANGED << script, idx, attempt, polls, answered, trapSet,
                  stillStarting, reported, pageVars, engineVars, updateVars >>

\* start_assessment.sh: sleep 10, then the readiness check of port 3000
checkReactReady ==
  /\ pc = "fe_ready"
  /\ stillStarting' = ~Answers("frontend")
  /\ pc' = "health"
  /\ idx' = 1
  /\ UNCHANGED << script, proc, healthy, attempt, polls, answered, trapSet,
                  reported, pageVars, engineVars, updateVars >>

\* start_assessment.sh: one call of health_check
health_check ==
  /\ pc = "health"
  /\ IF ~Answers(HealthOrder[idx]) /\ ExitOnError(1)
       THEN Exits /\ UNCHANGED idx
       ELSE /\ UNCHANGED << proc, healthy >>
            /\ IF idx < Len(HealthOrder)
                 THEN idx' = idx + 1 /\ UNCHANGED pc
                 ELSE pc' = "trap" /\ UNCHANGED idx
  /\ UNCHANGED << script, attempt, polls, answered, trapSet, stillStarting,
                  reported, pageVars, engineVars, updateVars >>

\* one turn of the monitor loop: start_assessment.sh reports the backend
\* services that do not answer; start_careDocQA.sh leaves the loop, and so
\* ends, when one of its four processes is gone
monitor ==
  /\ pc = "monitor"
  /\ IF script = "start_assessment"
       THEN /\ reported' = { s \in { "api-gateway", "incident-processor" } :
                               ~Answers(s) }
            /\ UNCHANGED << pc, proc, healthy >>
       ELSE /\ IF \E i \in 1..Len(LaunchOrder(script)) :
                    proc[LaunchOrder(script)[i]] # "running"
                 THEN Exits
                 ELSE UNCHANGED << pc, proc, healthy >>
            /\ UNCHANGED reported
  /\ UNCHANGED << script, idx, attempt, polls, answered, trapSet,
                  stillStarting, pageVars, engineVars, updateVars >>

\* SIGINT or SIGTERM reaches the script.  Without a trap for it the script
\* dies and the processes it launched in the background live on.  The cleanup
\* of start_assessment.sh ends with exit 0; the cleanup of start_careDocQA.sh
\* returns, and the script goes on unless the command it interrupted fails.
signal(sig, goesOn) ==
  /\ pc \notin { "not_started", "exited" }
  /\ IF script = "start_assessment"
       THEN /\ pc' = "exited"
            /\ IF trapSet /\ AssessmentTrapCovers(sig)
                 THEN /\ proc' = JobsKilled(proc)
                      /\ healthy' = [ s \in Services |-> FALSE ]
                 ELSE UNCHANGED << proc, healthy >>
       ELSE IF trapSet /\ CareTrapCovers(sig)
              THEN /\ proc' = Stopped(proc)
                   /\ healthy' = [ s \in Services |-> FALSE ]
                   /\ pc' = IF goesOn THEN pc ELSE "exited"
              ELSE /\ pc' = "exited"
                   /\ UNCHANGED << proc, healthy >>
  /\ UNCHANGED << script, idx, attempt, polls, answered, trapSet,
                  stillStarting, reported, pageVars, engineVars, updateVars >>

\* a launched service comes up: it answers its health URL from now on
becomesHealthy(s) ==
  /\ pc # "exited"
  /\ proc[s] = "running"
  /\ ~healthy[s]
  /\ healthy' = [ healthy EXCEPT ![s] = TRUE ]
  /\ UNCHANGED << script, pc, idx, proc, attempt, polls, answered, trapSet,
                  stillStarting, reported, pageVars, engineVars, updateVars >>

\* a launched service dies of itself
dies(s) ==
  /\ pc # "exited"
  /\ proc[s] = "running"
  /\ proc' = [ proc EXCEPT ![s] = "dead" ]
  /\ healthy' = [ healthy EXCEPT ![s] = FALSE ]
  /\ UNCHANGED << script, pc, idx, attempt, polls, answered, trapSet,
                  stillStarting, reported, pageVars, engineVars, updateVars >>

\* the steps of the script itself
ScriptStep ==
  \/ installTrap
  \/ \E ok \in BOOLEAN : checkPrerequisites(ok)
  \/ \E installed \in BOOLEAN : launch(installed)
  \/ poll
  \/ alive
  \/ \E installed \in BOOLEAN : startFrontend(installed)
  \/ checkReactReady
  \/ health_check
  \/ monitor

StartNext ==
  \/ \E sc \in Scripts : run(sc)
  \/ ScriptStep
  \/ \E sig \in { "INT", "TERM" }, goesOn \in BOOLEAN : signal(sig, goesOn)
  \/ \E s \in Services : becomesHealthy(s)
  \/ \E s \in Services : dies(s)

\* One run of a start script.
SpecStart == Init /\ [][StartNext]_vars

\* One run of a start script that is not suspended: the shell goes on to its
\* next command.
SpecStartLive == Init /\ [][StartNext]_vars /\ WF_vars(ScriptStep)

\* ------------------------------------------------------------ properties
Last(seq) == seq[Len(seq)]

Active(s) == sessionContext[s].hasActiveIncident

\* the response of an analyze request is handled in this step
AnalyzeCompletes(s, i, resp, now) == analyzeResponse(s, i, resp, now)

\* the response of a chat request is handled in this step
ChatCompletes(s, i, resp, now) == chatResponse(s, i, resp, now)

\* this step handles a response and ends by showing an analysis
AnalysisShown(s) ==
  /\ \E i \in 1..Len(inflight[s]), now \in Times :
       \/ \E resp \in AnalyzeResponses : AnalyzeCompletes(s, i, resp, now)
       \/ \E resp \in ChatResponses : ChatCompletes(s, i, resp, now)
  /\ Last(messages'[s]).type = "analysis"

\* C1: the context of every page starts EMPTY; it becomes ACTIVE only in a
\* step that handles a response and shows its analysis; such a step taken
\* while ACTIVE leaves it ACTIVE; and within the life of a page (no reload) it
\* returns to EMPTY only in a clearSessionContext step.
C1_ContextLifecycle ==
  /\ \A s \in Sessions : sessionContext[s] = InitialSessionContext /\ ~Active(s)
  /\ [][ \A s \in Sessions :
           /\ (~Active(s) /\ Active(s)') => AnalysisShown(s)
           /\ (Active(s) /\ AnalysisShown(s)) => Active(s)'
           /\ (Active(s) /\ ~Active(s)') => (clearSessionContext(s) \/ reload(s))
           /\ reload(s) => ~Active(s)'
       ]_vars

\* an ACTIVE context that has seen a further analysis after its first one
C1_Witness ==
  \E s \in Sessions :
    /\ Active(s)
    /\ \E j \in DOMAIN messages[s], k \in DOMAIN messages[s] :
         /\ j < k
         /\ messages[s][j].type = "analysis" /\ messages[s][j].analysisData # None
         /\ messages[s][k].type = "analysis" /\ messages[s][k].analysisData # None

\* C2: an analyze call that fails (rejected request, or a response the
\* handler cannot process) leaves the session context as it was, in the step
\* that starts the call and in the step that handles its failure.
C2_FailedAnalyzeKeepsContext ==
  [][ \A s \in Sessions :
        /\ analyzeTranscript(s) => sessionContext'[s] = sessionContext[s]
        /\ \A i \in 1..Len(inflight[s]), resp \in AnalyzeResponses, now \in Times :
             (AnalyzeCompletes(s, i, resp, now)
                /\ Last(messages'[s]).content = "Analysis failed")
             => sessionContext'[s] = sessionContext[s]
    ]_vars

\* an analysis has just failed on a page whose incident is still active
C2_Witness ==
  \E s \in Sessions :
    /\ Active(s)
    /\ ~isLoading[s]
    /\ Last(messages[s]).content = "Analysis failed"

\* C3: a successful analysis overwrites the whole context: lastAnalysis,
\* incidentSummary and originalTranscript are those of the response just
\* handled and of the text that was submitted with it, whatever the context
\* held before.
C3_AnalysisOverwrites ==
  [][ \A s \in Sessions :
        \A i \in 1..Len(inflight[s]), now \in Times :
          /\ \A resp \in AnalyzeResponses :
               (AnalyzeCompletes(s, i, resp, now) /\ resp.ok /\ resp.data # None)
               => /\ sessionContext'[s].hasActiveIncident
                  /\ sessionContext'[s].lastAnalysis = resp.data
                  /\ sessionContext'[s].incidentSummary = resp.data[1].analysis.summary
                  /\ sessionContext'[s].originalTranscript = Some(inflight[s][i].text)
                  /\ sessionContext'[s].lastTranscriptTime = Some(now)
          /\ \A resp \in ChatResponses :
               (ChatCompletes(s, i, resp, now) /\ resp.ok
                  /\ resp.type = "transcript_analysis" /\ resp.data # None)
               => /\ sessionContext'[s].hasActiveIncident
                  /\ sessionContext'[s].lastAnalysis = resp.data
                  /\ sessionContext'[s].incidentSummary = resp.data[1].analysis.summary
                  /\ sessionContext'[s].originalTranscript = Some(inflight[s][i].text)
                  /\ sessionContext'[s].lastTranscriptTime = Some(now)
    ]_vars

\* a second analysis, different from the first, has replaced it
C3_Witness ==
  \E s \in Sessions :
    \E j \in DOMAIN messages[s] :
      /\ j < Len(messages[s])
      /\ messages[s][j].type = "analysis" /\ messages[s][j].analysisData # None
      /\ Last(messages[s]).type = "analysis"
      /\ Last(messages[s]).analysisData # messages[s][j].analysisData
      /\ sessionContext[s].lastAnalysis = Last(messages[s]).analysisData
      /\ sessionContext[s].incidentSummary # messages[s][j].analysisData[1].analysis.summary

\* C4: clearSessionContext leaves the context EMPTY, so that a chat request
\* built right after it carries no incident; clearing the cleared context
\* again gives the same context.
C4_ClearEmptiesAndIsIdempotent ==
  [][ \A s \in Sessions :
        clearSessionContext(s)
        => /\ ~sessionContext'[s].hasActiveIncident
           /\ SessionContextPayload(sessionContext'[s]) = None
           /\ ClearedContext(sessionContext'[s]) = sessionContext'[s]
    ]_vars

\* the context has just been cleared
C4_Witness ==
  \E s \in Sessions :
    /\ Last(messages[s]).content = "Session context cleared"
    /\ ~Active(s)
    /\ \E j \in DOMAIN messages[s] : messages[s][j].type = "analysis"

\* C5: handling a chat reply that is a question answer (any type other than
\* transcript_analysis) leaves every field of the context unchanged.
C5_AnswerKeepsContext ==
  [][ \A s \in Sessions :
        \A i \in 1..Len(inflight[s]), resp \in ChatResponses, now \in Times :
          (ChatCompletes(s, i, resp, now) /\ resp.ok
             /\ resp.type # "transcript_analysis")
          => sessionContext'[s] = sessionContext[s]
    ]_vars

\* a follow-up question has just been answered about an active incident
C5_Witness ==
  \E s \in Sessions :
    /\ Active(s)
    /\ Last(messages[s]).type = "ai"
    /\ ~isLoading[s]

\* C6: handling a failed chat call leaves the context unchanged, and the
\* next chat request carries the same incident as before the failure.
C6_FailedChatKeepsContext ==
  [][ \A s \in Sessions :
        \A i \in 1..Len(inflight[s]), resp \in ChatResponses, now \in Times :
          (ChatCompletes(s, i, resp, now) /\ Last(messages'[s]).content = "Error")
          => /\ sessionContext'[s] = sessionContext[s]
             /\ SessionContextPayload(sessionContext'[s])
                  = SessionContextPayload(sessionContext[s])
    ]_vars

\* a chat call has just failed on a page whose incident is still active
C6_Witness ==
  \E s \in Sessions :
    /\ Active(s)
    /\ ~isLoading[s]
    /\ Last(messages[s]).content = "Error"
    /\ SessionContextPayload(sessionContext[s]) # None

\* C7: a page never has more than one analyze or chat request in flight, and
\* while one is in flight the page is loading, which disables both ways of
\* starting another.
C7_OneRequestAtATime ==
  \A s \in Sessions :
    /\ Len(inflight[s]) <= 1
    /\ inflight[s] # <<>> =>
         (isLoading[s] /\ ~ChatInputEnabled(s) /\ ~AnalyzeButtonEnabled(s))

\* a request is in flight while the page holds a transcript it could analyze
C7_Witness ==
  \E s \in Sessions :
    /\ Len(inflight[s]) = 1
    /\ inflight[s][1].kind = "chat"
    /\ Trim(transcript[s]) # <<>>

\* C8: handling the response of an analyze call, or of a chat call answered
\* with a transcript analysis, either records the analysis in the context and
\* adds its cost to the total, or changes neither.
C8_AnalysisAllOrNothing ==
  [][ \A s \in Sessions :
        \A i \in 1..Len(inflight[s]), now \in Times :
          \A resp \in AnalyzeResponses \cup ChatResponses :
            ( \/ resp \in AnalyzeResponses /\ AnalyzeCompletes(s, i, resp, now)
              \/ /\ resp \in ChatResponses /\ ChatCompletes(s, i, resp, now)
                 /\ resp.type = "transcript_analysis" )
            => \/ /\ resp.data # None
                  /\ sessionContext'[s].hasActiveIncident
                  /\ sessionContext'[s].lastAnalysis = resp.data
                  /\ sessionContext'[s].originalTranscript = Some(inflight[s][i].text)
                  /\ totalCost'[s] = totalCost[s] + resp.cost
               \/ /\ sessionContext'[s] = sessionContext[s]
                  /\ totalCost'[s] = totalCost[s]
    ]_vars

\* a chat message was answered with an analysis that was recorded and costed
C8_Witness ==
  \E s \in Sessions :
    /\ Last(messages[s]).type = "analysis"
    /\ Last(messages[s]).content = "data.message"
    /\ sessionContext[s].lastAnalysis = Last(messages[s]).analysisData
    /\ Active(s)
    /\ totalCost[s] > 0

\* C9: within the life of a page, no operation (starting or completing an
\* analyze or chat call, clearing, typing, the health check) lowers the
\* page's cost total.
C9_TotalNeverDecreases ==
  [][ \A s \in Sessions : ~reload(s) => totalCost'[s] >= totalCost[s] ]_vars

\* a call has failed on a page that had already accumulated a cost
C9_Witness ==
  \E s \in Sessions :
    /\ totalCost[s] > 0
    /\ Last(messages[s]).content \in {"Analysis failed", "Error"}
    /\ systemHealth[s] # None

\* C10: the stored cost total is the sum of the costs of all the calls that
\* succeeded, on whichever page and in whichever order they completed.
C10_NoIncrementLost ==
  storedCost # None => ParseFloat(storedCost[1]) = billed

\* C11: a chat request carries the incident (last analysis, its summary, the
\* original transcript) exactly when the context is ACTIVE as the message is
\* sent, and what it carries is the content of the context at that moment;
\* otherwise it carries the message alone.
C11_ChatCarriesCurrentContext ==
  [][ \A s \in Sessions :
        (Len(inflight'[s]) > Len(inflight[s]) /\ Last(inflight'[s]).kind = "chat")
        => LET r == Last(inflight'[s]) IN
           /\ r.text = message[s]
           /\ (r.session_context # None) <=> Active(s)
           /\ Active(s) =>
                r.session_context =
                  Some([ has_active_incident |-> TRUE,
                         last_analysis |-> sessionContext[s].lastAnalysis[1],
                         incident_summary |-> sessionContext[s].incidentSummary,
                         original_transcript |-> sessionContext[s].originalTranscript ])
    ]_vars

\* a follow-up question is in flight with the active incident attached
C11_Witness ==
  \E s \in Sessions :
    /\ Active(s)
    /\ Len(inflight[s]) = 1
    /\ inflight[s][1].kind = "chat"
    /\ inflight[s][1].session_context # None
    /\ inflight[s][1].session_context[1].original_transcript
         = sessionContext[s].originalTranscript

\* C12: no request is ever issued for an empty or white-space-only text, and
\* a send or an analyze on such a text leaves the requests in flight, the
\* context and the cost total (in memory and stored) as they were.
C12_BlankInputIssuesNoRequest ==
  /\ [](\A s \in Sessions : \A i \in 1..Len(inflight[s]) :
          Trim(inflight[s][i].text) # <<>>)
  /\ [][ \A s \in Sessions :
           ( (sendChatMessage(s) /\ Trim(message[s]) = <<>>)
             \/ (analyzeTranscript(s) /\ Trim(transcript[s]) = <<>>) )
           => /\ inflight' = inflight
              /\ sessionContext' = sessionContext
              /\ totalCost' = totalCost
              /\ storedCost' = storedCost
       ]_vars

\* a white-space-only message sits in an enabled chat input of a page that
\* has already exchanged messages
C12_Witness ==
  \E s \in Sessions :
    /\ message[s] # <<>>
    /\ Trim(message[s]) = <<>>
    /\ ChatInputEnabled(s)
    /\ inflight[s] = <<>>
    /\ Len(messages[s]) > 1

\* a step of page s: one of its handlers runs, or it is reloaded
OwnStep(s) ==
  \/ \E v \in Texts : handleMessageChange(s, v) \/ handleTranscriptChange(s, v)
  \/ sendChatMessage(s)
  \/ analyzeTranscript(s)
  \/ \E i \in 1..Len(inflight[s]), now \in Times :
       \/ \E resp \in ChatResponses : chatResponse(s, i, resp, now)
       \/ \E resp \in AnalyzeResponses : analyzeResponse(s, i, resp, now)
  \/ clearSessionContext(s)
  \/ reload(s)

AllFieldsFilled(entries) ==
  \A field \in { "reporter", "description" } :
    \E j \in 1..Len(entries) : entries[j][1] = field /\ entries[j][2] # ""

\* the place of the first entry of a list that names the section
FirstPlace(list, section) ==
  CHOOSE i \in 1..Len(list) :
    /\ list[i].section = section
    /\ \A j \in 1..(i - 1) : list[j].section # section

EngineReturned == enginePc \in { "returned", "shown" }

C17_UpdateScopeLaw ==
  (updateResult # None /\ updateResult[1].status = "ok") =>
    \A t \in DocumentTypes \ ({ updateResult[1].type } \cup updateResult[1].cross_updates) :
      /\ updateResult[1].returned[t] = updateResult[1].before[t]
      /\ updateResult[1].returned[t] = artifacts[t]

C17_Witness ==
  /\ updateResult # None
  /\ updateResult[1].status = "ok"
  /\ updateResult[1].type = "incident_report"
  /\ updateResult[1].cross_updates = { "email_family" }
  /\ updateResult[1].returned["incident_report"] # updateResult[1].before["incident_report"]
  /\ updateResult[1].returned["email_family"] # updateResult[1].before["email_family"]
  /\ updateResult[1].returned["email_supervisor"] = "v1"

C20_ReloadGivesFreshSession ==
  /\ [](\A s \in Sessions :
          (Len(messages[s]) = 2 /\ inflight[s] # <<>> /\ inflight[s][1].kind = "chat")
          => inflight[s][1].session_context = None)
  /\ [][ \A s \in Sessions :
           reload(s) => /\ sessionContext'[s] = InitialSessionContext
                        /\ SessionContextPayload(sessionContext'[s]) = None
                        /\ inflight'[s] = <<>>
                        /\ ~isLoading'[s] ]_vars

\* a reloaded page (its stored cost shows an earlier successful call) has
\* sent its first message, without an incident
C20_Witness ==
  \E s \in Sessions :
    /\ storedCost # None
    /\ totalCost[s] > 0
    /\ Len(messages[s]) = 2
    /\ Len(inflight[s]) = 1
    /\ inflight[s][1].kind = "chat"
    /\ inflight[s][1].session_context = None
    /\ ~Active(s)

CallSucceeds(s) ==
  \E i \in 1..Len(inflight[s]), now \in Times :
    \/ \E resp \in ChatResponses :
         ChatSucceeds(resp) /\ ChatCompletes(s, i, resp, now)
    \/ \E resp \in AnalyzeResponses :
         AnalyzeSucceeds(resp) /\ AnalyzeCompletes(s, i, resp, now)

\* C21: a step that handles a successful call leaves the stored total equal to
\* the total of the page; a reload sets the total of the page to the stored
\* value (0 when nothing is stored), and that is the total the page had before
\* the reload.
C21_TotalSurvivesReload ==
  [][ \A s \in Sessions :
        /\ CallSucceeds(s) =>
             /\ storedCost' # None
             /\ ParseFloat(storedCost'[1]) = totalCost'[s]
        /\ reload(s) =>
             /\ totalCost'[s] = IF storedCost = None THEN 0
                                ELSE ParseFloat(storedCost[1])
             /\ totalCost'[s] = totalCost[s] ]_vars

\* Clear Context was pressed on page s while its request was in flight: a
\* request starts with a user message, so the notice of the clear can only be
\* the last message if it came after
ClearedInFlight(s) ==
  /\ inflight[s] # <<>>
  /\ Last(messages[s]).content = "Session context cleared"

\* C22: when Clear Context was pressed while a request was in flight, the
\* context of the page is still EMPTY after the successful response of that
\* request has been handled.
C22_ClearedStaysEmpty ==
  [][ \A s \in Sessions :
        (ClearedInFlight(s) /\ CallSucceeds(s)) => ~Active(s)' ]_vars

\* C23: on every page the context is ACTIVE exactly when it holds an analysis,
\* the transcript of the analysis and its time; the summary of an ACTIVE
\* context is the summary inside the analysis it holds, and the summary of an
\* EMPTY context is the empty string.
C23_ContextFieldsAgree ==
  \A s \in Sessions :
    LET ctx == sessionContext[s] IN
    /\ ctx.hasActiveIncident <=>
         /\ ctx.lastAnalysis # None
         /\ ctx.originalTranscript # None
         /\ ctx.lastTranscriptTime # None
    /\ ctx.hasActiveIncident => ctx.lastAnalysis # None
    /\ ctx.hasActiveIncident =>
         ctx.incidentSummary = ctx.lastAnalysis[1].analysis.summary
    /\ ~ctx.hasActiveIncident =>
         /\ ctx.incidentSummary = ""
         /\ ctx.lastAnalysis = None
         /\ ctx.originalTranscript = None
         /\ ctx.lastTranscriptTime = None

\* a context cleared and then made ACTIVE again by the analysis of a request
\* that was in flight
C23_Witness ==
  \E s \in Sessions :
    /\ Active(s)
    /\ sessionContext[s].incidentSummary = "medication"
    /\ sessionContext[s].originalTranscript = Some(<<"b">>)
    /\ \E k \in 1..Len(messages[s]) :
         messages[s][k].content = "Session context cleared"

\* C24: a step that handles a response and adds an 'analysis' message to the
\* history of a page also sets the lastAnalysis of the page's context to the
\* analysis data of that message.
C24_ContextFollowsHistory ==
  [][ \A s \in Sessions :
        \A k \in (Len(messages[s]) + 1)..Len(messages'[s]) :
          (~reload(s) /\ messages'[s][k].type = "analysis") =>
            /\ messages'[s][k].analysisData # None
            /\ sessionContext'[s].lastAnalysis = messages'[s][k].analysisData ]_vars

\* the script is in the wait loop for service s
WaitingFor(s) == pc \in { "poll", "alive" } /\ current = s

\* C25: a script has launched a service of its launch order only when the
\* service before it has answered a poll of its wait loop, and
\* start_assessment.sh has launched the frontend only when api-gateway has; so
\* nothing is launched after a service that never answers.
C25_LaunchedInOrder ==
  /\ \A i \in 2..Len(LaunchOrder(script)) :
       proc[LaunchOrder(script)[i]] # "none" =>
         LaunchOrder(script)[i - 1] \in answered
  /\ (script = "start_assessment" /\ proc["frontend"] # "none") =>
       { "incident-processor", "api-gateway" } \subseteq answered

\* incident-processor never answered: the script has ended after 30 polls
\* with nothing else launched
C25_Witness ==
  /\ script = "start_assessment"
  /\ pc = "exited"
  /\ proc["incident-processor"] = "running"
  /\ answered = {}
  /\ polls = 30
  /\ proc["api-gateway"] = "none"
  /\ proc["frontend"] = "none"

\* C26: a wait loop makes at most 30 polls; a poll that succeeds ends the wait
\* at once with success; start_service ends the wait when it sees the
\* launched process gone; and every wait ends.
C26_WaitTerminates ==
  /\ [](polls <= 30)
  /\ [][ (poll /\ WaitLoopContinues(attempt) /\ Answers(current)) =>
           (current \in answered' /\ pc' \notin { "poll", "alive" }) ]_vars
  /\ [][ (alive /\ proc[current] # "running") => pc' = "exited" ]_vars
  /\ \A s \in Services : WaitingFor(s) ~> ~WaitingFor(s)

\* wait_for_service gave up on document-service after 30 polls
C26_Witness ==
  /\ script = "start_careDocQA"
  /\ pc = "exited"
  /\ polls = 30
  /\ attempt = 31
  /\ answered = {}
  /\ proc["document-service"] = "dead"

\* C27: when start_careDocQA.sh has ended after installing its trap, no
\* service it launched is running; and once one of its four services is dead
\* while it monitors them, there comes a moment when none is running.
C27_CleanupOnExit ==
  /\ []((script = "start_careDocQA" /\ pc = "exited") =>
          \A s \in Services : proc[s] # "running")
  /\ (/\ script = "start_careDocQA"
      /\ pc = "monitor"
      /\ \E s \in Services : proc[s] = "dead")
       ~> (\A s \in Services : proc[s] # "running")

\* all four services came up, one died, and the script ended
C27_Witness ==
  /\ script = "start_careDocQA"
  /\ pc = "exited"
  /\ answered = { "document-service", "ai-service", "api-gateway", "frontend" }
  /\ \A s \in answered : proc[s] = "dead"

\* C28: when start_assessment.sh has ended, no service it launched is running.
C28_NothingLeftRunning ==
  (script = "start_assessment" /\ pc = "exited") =>
    \A s \in Services : proc[s] # "running"

\* C29: when both backend services answer and the readiness check found the
\* frontend still starting, no call of health_check ends the script.
C29_SlowFrontendTolerated ==
  [][ ( /\ script = "start_assessment"
        /\ stillStarting
        /\ Answers("incident-processor")
        /\ Answers("api-gateway")
        /\ health_check ) => pc' # "exited" ]_vars

====
